---- MODULE Spec2Model ----
(***************************************************************************)
(* whitespace-rs: a codec that writes every bit of a byte sequence as one  *)
(* of two whitespace characters.  The crate has two codecs: the top-level  *)
(* encode/decode of lib.rs and the module-scoped encode::encode and        *)
(* decode::decode of encode.rs and decode.rs.                              *)
(*                                                                         *)
(* A String is modelled as the sequence of its chars, a char as its code   *)
(* point, a Vec<u8> as a sequence of numbers in 0..255.  Sequence index i  *)
(* of the model is index i - 1 of the code.                                *)
(***************************************************************************)
EXTENDS Integers, Sequences, FiniteSets, TLC

VARIABLES given, data, input, encoded, redecoded, decoded, reencoded,
          message, m_encoded, m_decoded, m_message

vars == <<given, data, input, encoded, redecoded, decoded, reencoded,
          message, m_encoded, m_decoded, m_message>>

(***************************************************************************)
(* lib.rs: the alphabet.                                                   *)
(***************************************************************************)
HIGH == 32

LOW == 8203

(***************************************************************************)
(* u8 arithmetic of the bit tests and of the packing.                      *)
(***************************************************************************)
Shl8(x, n) == (x * (2 ^ n)) % 256

RECURSIVE BitAnd8(_, _)
BitAnd8(a, b) ==
    IF a = 0 \/ b = 0 THEN 0
    ELSE ((a % 2) * (b % 2)) + 2 * BitAnd8(a \div 2, b \div 2)

RECURSIVE BitOr8(_, _)
BitOr8(a, b) ==
    IF a = 0 THEN b
    ELSE IF b = 0 THEN a
    ELSE (IF a % 2 = 1 \/ b % 2 = 1 THEN 1 ELSE 0) + 2 * BitOr8(a \div 2, b \div 2)

(***************************************************************************)
(* (0..8).rev(): the bit positions in the order the encoders visit them.   *)
(***************************************************************************)
RangeRev8Forward == [i \in 1..8 |-> i - 1]

RangeRev8 == [i \in 1..8 |-> 8 - i]

(***************************************************************************)
(* lib.rs encode: fold over the bytes, and for each byte a fold over the   *)
(* bit positions 7 down to 0 that pushes one char per bit.                 *)
(***************************************************************************)
encode_bit_swapped(byte, bit) ==
    IF BitAnd8(byte, Shl8(1, bit)) = 0 THEN HIGH ELSE LOW

encode_bit(byte, bit) ==
    IF BitAnd8(byte, Shl8(1, bit)) = 0 THEN LOW ELSE HIGH

RECURSIVE encode_byte_from(_, _, _)
encode_byte_from(buffer, byte, k) ==
    IF k > Len(RangeRev8) THEN buffer
    ELSE encode_byte_from(Append(buffer, encode_bit(byte, RangeRev8[k])), byte, k + 1)

encode_byte(buffer, byte) == encode_byte_from(buffer, byte, 1)

RECURSIVE encode_from(_, _, _)
encode_from(buffer, bytes, k) ==
    IF k > Len(bytes) THEN buffer
    ELSE encode_from(encode_byte(buffer, bytes[k]), bytes, k + 1)

encode(bytes) == encode_from(<<>>, bytes, 1)

(***************************************************************************)
(* lib.rs DecodeError and the Result of decode.                            *)
(***************************************************************************)
Ok(v) == [tag |-> "Ok", val |-> v]

InvalidLength(length) == [tag |-> "InvalidLength", length |-> length]

InvalidCharacter(pos, char) == [tag |-> "InvalidCharacter", pos |-> pos, char |-> char]

(***************************************************************************)
(* input.chars().enumerate(): each char with its zero-based char index.    *)
(***************************************************************************)
RECURSIVE char_indices_offset(_, _)
char_indices_offset(s, i) ==
    IF i = 0 THEN 0
    ELSE char_indices_offset(s, i - 1)
         + (IF s[i] < 128 THEN 1 ELSE IF s[i] < 2048 THEN 2
            ELSE IF s[i] < 65536 THEN 3 ELSE 4)

char_indices(s) ==
    [i \in 1..Len(s) |-> [pos |-> char_indices_offset(s, i - 1), char |-> s[i]]]

chars_enumerate(s) == [i \in 1..Len(s) |-> [pos |-> i - 1, char |-> s[i]]]

(***************************************************************************)
(* lib.rs decode, the closure of map: one char to a bit or to an error.    *)
(***************************************************************************)
decode_map(pos, char) ==
    IF char = LOW THEN Ok(0)
    ELSE IF char = HIGH THEN Ok(1)
    ELSE InvalidCharacter(pos, char)

(***************************************************************************)
(* collect::<Result<Vec<u8>, DecodeError>>(): the items are taken in       *)
(* order; the first Err ends the collection and is the result.             *)
(***************************************************************************)
RECURSIVE collect_from(_, _, _)
collect_from(items, acc, k) ==
    IF k > Len(items) THEN Ok(acc)
    ELSE IF items[k].tag = "Ok" THEN collect_from(items, Append(acc, items[k].val), k + 1)
    ELSE items[k]

collect(items) == collect_from(items, <<>>, 1)

(***************************************************************************)
(* chunks_exact(8): the full chunks in order; a remainder shorter than the *)
(* chunk size is left out.                                                 *)
(***************************************************************************)
chunks_exact(bits, size) ==
    [c \in 1..(Len(bits) \div size) |-> SubSeq(bits, (c - 1) * size + 1, c * size)]

(***************************************************************************)
(* chunk.iter().rev().enumerate().fold(0u8, |byte, (pos, bit)| byte | bit  *)
(* << pos): the last bit of the chunk gets position 0.                     *)
(***************************************************************************)
RECURSIVE decode_chunk_from(_, _, _)
decode_chunk_from(byte, chunk, pos) ==
    IF pos >= Len(chunk) THEN byte
    ELSE decode_chunk_from(BitOr8(byte, Shl8(chunk[Len(chunk) - pos], pos)), chunk, pos + 1)

decode_chunk_no_rev(chunk) ==
    LET RECURSIVE fold(_, _)
        fold(byte, pos) ==
            IF pos >= Len(chunk) THEN byte
            ELSE fold(BitOr8(byte, Shl8(chunk[pos + 1], pos)), pos + 1)
    IN fold(0, 0)

decode_chunk(chunk) == decode_chunk_from(0, chunk, 0)

decode_bytes(bits) ==
    LET chunks == chunks_exact(bits, 8)
    IN [c \in 1..Len(chunks) |-> decode_chunk(chunks[c])]

decode_bits(s) ==
    LET items == chars_enumerate(s)
    IN collect([i \in 1..Len(items) |-> decode_map(items[i].pos, items[i].char)])

decode_without_length_check(s) ==
    LET bits == decode_bits(s)
    IN IF bits.tag # "Ok" THEN bits ELSE Ok(decode_bytes(bits.val))

decode(s) ==
    LET bits == decode_bits(s)
    IN IF bits.tag # "Ok" THEN bits
       ELSE IF Len(bits.val) % 8 # 0 THEN InvalidLength(Len(bits.val))
       ELSE Ok(decode_bytes(bits.val))

(***************************************************************************)
(* encode.rs encode::encode: map every byte to a String of its own, built  *)
(* by the fold over the bit positions 7 down to 0, and collect() the       *)
(* Strings into one in byte order.                                         *)
(***************************************************************************)
encode_encode_bit(byte, pos) ==
    IF BitAnd8(byte, Shl8(1, pos)) = 0 THEN LOW ELSE HIGH

RECURSIVE encode_encode_byte_from(_, _, _)
encode_encode_byte_from(res, byte, k) ==
    IF k > Len(RangeRev8) THEN res
    ELSE encode_encode_byte_from(Append(res, encode_encode_bit(byte, RangeRev8[k])),
                                 byte, k + 1)

encode_encode_byte(byte) == encode_encode_byte_from(<<>>, byte, 1)

RECURSIVE collect_string(_, _)
collect_string(strings, k) ==
    IF k > Len(strings) THEN <<>>
    ELSE strings[k] \o collect_string(strings, k + 1)

encode_encode(bytes) ==
    collect_string([k \in 1..Len(bytes) |-> encode_encode_byte(bytes[k])], 1)

(***************************************************************************)
(* decode.rs decode::DecodeError and decode::decode: the chars are mapped  *)
(* to bits with the first other char ending the scan as an error, and the  *)
(* full chunks of 8 bits are packed; no length is tested.                  *)
(***************************************************************************)
DecodeError_new(pos, char) == [tag |-> "DecodeError", pos |-> pos, char |-> char]

decode_decode_map(pos, c) ==
    IF c = LOW THEN Ok(0)
    ELSE IF c = HIGH THEN Ok(1)
    ELSE DecodeError_new(pos, c)

RECURSIVE decode_decode_chunk_from(_, _, _)
decode_decode_chunk_from(byte, chunk, pos) ==
    IF pos >= Len(chunk) THEN byte
    ELSE decode_decode_chunk_from(BitOr8(byte, Shl8(chunk[Len(chunk) - pos], pos)),
                                  chunk, pos + 1)

decode_decode_chunk(chunk) == decode_decode_chunk_from(0, chunk, 0)

decode_decode(s) ==
    LET items == chars_enumerate(s)
        bits == collect([i \in 1..Len(items) |->
                            decode_decode_map(items[i].pos, items[i].char)])
    IN IF bits.tag # "Ok" THEN bits
       ELSE LET chunks == chunks_exact(bits.val, 8)
            IN Ok([c \in 1..Len(chunks) |-> decode_decode_chunk(chunks[c])])

(***************************************************************************)
(* Display.  A usize is written in decimal, a char as itself.              *)
(***************************************************************************)
RECURSIVE usize_to_string(_)
usize_to_string(n) ==
    IF n < 10 THEN <<48 + n>>
    ELSE Append(usize_to_string(n \div 10), 48 + (n % 10))

\* lib.rs, #[error("Invalid input length {length}. Must be divisible through 8")]
\*         #[error("Invalid character {char} at position {pos}")]
DecodeError_to_string(e) ==
    IF e.tag = "InvalidLength"
    THEN <<73, 110, 118, 97, 108, 105, 100, 32, 105, 110, 112, 117, 116, 32,
           108, 101, 110, 103, 116, 104, 32>>
         \o usize_to_string(e.length)
         \o <<46, 32, 77, 117, 115, 116, 32, 98, 101, 32, 100, 105, 118, 105, 115,
              105, 98, 108, 101, 32, 116, 104, 114, 111, 117, 103, 104, 32, 56>>
    ELSE <<73, 110, 118, 97, 108, 105, 100, 32, 99, 104, 97, 114, 97, 99, 116,
           101, 114, 32>>
         \o <<e.char>>
         \o <<32, 97, 116, 32, 112, 111, 115, 105, 116, 105, 111, 110, 32>>
         \o usize_to_string(e.pos)

\* decode.rs, write!(f, "Invalid character '{}' at position {}", self.char, self.pos)
decode_DecodeError_fmt(e) ==
    <<73, 110, 118, 97, 108, 105, 100, 32, 99, 104, 97, 114, 97, 99, 116, 101,
      114, 32, 39>>
    \o <<e.char>>
    \o <<39, 32, 97, 116, 32, 112, 111, 115, 105, 116, 105, 111, 110, 32>>
    \o usize_to_string(e.pos)

(***************************************************************************)
(* The inputs of the crate's own tests and doc tests.                      *)
(***************************************************************************)
\* lib.rs test_encode, test_successful_decode: vec![10, 10] and its 16 chars
test_data_10_10 == <<10, 10>>

test_encoded_10_10 ==
    <<LOW, LOW, LOW, LOW, HIGH, LOW, HIGH, LOW, LOW, LOW, LOW, LOW, HIGH, LOW, HIGH, LOW>>

\* lib.rs test_decode_with_invalid_input_length: the same without its last char
test_encoded_15 ==
    <<LOW, LOW, LOW, LOW, HIGH, LOW, HIGH, LOW, LOW, LOW, LOW, LOW, HIGH, LOW, HIGH>>

\* lib.rs test_decode_with_invalid_character: '?' as the second of 15 chars
test_encoded_invalid ==
    <<LOW, 63, LOW, LOW, HIGH, LOW, HIGH, LOW, LOW, LOW, LOW, LOW, HIGH, LOW, HIGH>>

\* encode.rs test_encode, decode.rs test_decode_valid: vec![10, 2] and
\* "    \t \t       \t "
test_input_10_2 == <<10, 2>>

test_expected_10_2 == <<32, 32, 32, 32, 9, 32, 9, 32, 32, 32, 32, 32, 32, 32, 9, 32>>

\* decode.rs test_decode_invalid: "\t\t yeet"
test_input_yeet == <<9, 9, 32, 121, 101, 101, 116>>

(***************************************************************************)
(* Bounds of the checked inputs.                                           *)
(***************************************************************************)
MaxLen == 2

MaxTextLen == 4

MaxBits == 9

ByteSample == {0, 2, 10, 255}

OtherChars == {9, 121}

SeqsUpTo(S, n) == UNION {[1..k -> S] : k \in 0..n}

\* bit j (0 the most significant) of a byte, and its char in the encoding
RefBit(byte, j) == (byte \div (2 ^ (7 - j))) % 2

RefChar(byte, j) == IF RefBit(byte, j) = 1 THEN HIGH ELSE LOW

RefEncode(bytes) ==
    [n \in 1..(8 * Len(bytes)) |-> RefChar(bytes[((n - 1) \div 8) + 1], (n - 1) % 8)]

\* every single byte, and the sequences of sample bytes up to MaxLen
DataInputs == {<<b>> : b \in 0..255} \cup SeqsUpTo(ByteSample, MaxLen)

\* an encoded text cut after n chars, with the char at index k replaced by '?'
\* when k > 0
Damaged(text, n, k) == [i \in 1..n |-> IF i = k THEN 63 ELSE text[i]]

DamagedTexts ==
    UNION {{Damaged(RefEncode(d), n, k) : n \in 0..(8 * Len(d)), k \in 0..(8 * Len(d))}
           : d \in SeqsUpTo(ByteSample, MaxLen)}

TextInputs ==
    SeqsUpTo({HIGH, LOW} \cup OtherChars, MaxTextLen)
    \cup SeqsUpTo({HIGH, LOW}, MaxBits)
    \cup DamagedTexts
    \cup {test_encoded_10_10, test_encoded_15, test_encoded_invalid,
          test_expected_10_2, test_input_yeet}

(***************************************************************************)
(* The callers of the two codecs: a caller holds bytes or a text, calls a  *)
(* function of the crate on it and keeps the result; it may pass a result  *)
(* on to the inverse function, and format an error it got.                 *)
(***************************************************************************)
None == [tag |-> "None"]

String(v) == [tag |-> "String", val |-> v]

Init ==
    /\ given \in {"data", "input"}
    /\ data \in (IF given = "data" THEN DataInputs ELSE {<<>>})
    /\ input \in (IF given = "input" THEN TextInputs ELSE {<<>>})
    /\ encoded = None
    /\ redecoded = None
    /\ decoded = None
    /\ reencoded = None
    /\ message = None
    /\ m_encoded = None
    /\ m_decoded = None
    /\ m_message = None

\* encode(&data)
CallEncode ==
    /\ given = "data"
    /\ encoded = None
    /\ encoded' = String(encode(data))
    /\ UNCHANGED <<given, data, input, redecoded, decoded, reencoded, message,
                   m_encoded, m_decoded, m_message>>

\* decode(&encode(&data))
CallDecodeOfEncoded ==
    /\ encoded.tag = "String"
    /\ redecoded = None
    /\ redecoded' = decode(encoded.val)
    /\ UNCHANGED <<given, data, input, encoded, decoded, reencoded, message,
                   m_encoded, m_decoded, m_message>>

\* decode(input)
CallDecode ==
    /\ given = "input"
    /\ decoded = None
    /\ decoded' = decode(input)
    /\ UNCHANGED <<given, data, input, encoded, redecoded, reencoded, message,
                   m_encoded, m_decoded, m_message>>

\* encode(&decode(input).unwrap())
CallEncodeOfDecoded ==
    /\ decoded.tag = "Ok"
    /\ reencoded = None
    /\ reencoded' = String(encode(decoded.val))
    /\ UNCHANGED <<given, data, input, encoded, redecoded, decoded, message,
                   m_encoded, m_decoded, m_message>>

\* decode(input).unwrap_err().to_string()
CallToString ==
    /\ decoded.tag \in {"InvalidLength", "InvalidCharacter"}
    /\ message = None
    /\ message' = String(DecodeError_to_string(decoded))
    /\ UNCHANGED <<given, data, input, encoded, redecoded, decoded, reencoded,
                   m_encoded, m_decoded, m_message>>

\* encode::encode(data)
CallEncodeEncode ==
    /\ given = "data"
    /\ m_encoded = None
    /\ m_encoded' = String(encode_encode(data))
    /\ UNCHANGED <<given, data, input, encoded, redecoded, decoded, reencoded,
                   message, m_decoded, m_message>>

\* decode::decode(input)
CallDecodeDecode ==
    /\ given = "input"
    /\ m_decoded = None
    /\ m_decoded' = decode_decode(input)
    /\ UNCHANGED <<given, data, input, encoded, redecoded, decoded, reencoded,
                   message, m_encoded, m_message>>

\* decode::decode(input).unwrap_err().to_string()
CallDecodeErrorToString ==
    /\ m_decoded.tag = "DecodeError"
    /\ m_message = None
    /\ m_message' = String(decode_DecodeError_fmt(m_decoded))
    /\ UNCHANGED <<given, data, input, encoded, redecoded, decoded, reencoded,
                   message, m_encoded, m_decoded>>

Next ==
    \/ CallEncode
    \/ CallDecodeOfEncoded
    \/ CallDecode
    \/ CallEncodeOfDecoded
    \/ CallToString
    \/ CallEncodeEncode
    \/ CallDecodeDecode
    \/ CallDecodeErrorToString

Spec == Init /\ [][Next]_vars

(***************************************************************************)
(* Properties.                                                             *)
(***************************************************************************)
IsBitChar(c) == c \in {HIGH, LOW}

AllBitChars(s) == \A i \in 1..Len(s) : IsBitChar(s[i])

\* the index in the model (one more than the position in the code) of the
\* first char of s that is neither HIGH nor LOW
FirstOther(s) ==
    CHOOSE i \in 1..Len(s) : ~IsBitChar(s[i]) /\ \A j \in 1..(i - 1) : IsBitChar(s[j])

\* C1: decoding the encoding of any byte sequence, the empty one included,
\* gives back Ok of that byte sequence.
C1_DecodeOfEncode ==
    redecoded # None => redecoded = Ok(data)

C1_Witness ==
    /\ redecoded.tag = "Ok"
    /\ data = test_input_10_2

\* C2: a text of HIGH and LOW only whose char count is a multiple of 8 (the
\* empty one included) decodes to Ok(v), and v encodes to that text.
C2_EncodeOfDecode ==
    (given = "input" /\ AllBitChars(input) /\ Len(input) % 8 = 0) =>
        /\ decoded # None => decoded.tag = "Ok"
        /\ reencoded # None => reencoded = String(input)

C2_Witness ==
    /\ reencoded.tag = "String"
    /\ Len(input) = 16
    /\ \E i, j \in 1..16 : input[i] = HIGH /\ input[j] = LOW

\* C3: encode gives 8 chars per byte, the char at position 8 * i + j being
\* HIGH if bit 7 - j of byte i is set and LOW if not; it has no error outcome.
C3_EncodeIsReference ==
    encoded # None =>
        /\ encoded.tag = "String"
        /\ Len(encoded.val) = 8 * Len(data)
        /\ \A i \in 0..(Len(data) - 1) : \A j \in 0..7 :
              encoded.val[8 * i + j + 1] =
                  (IF (data[i + 1] \div (2 ^ (7 - j))) % 2 = 1 THEN HIGH ELSE LOW)

C3_Witness ==
    /\ data = test_data_10_10
    /\ encoded = String(test_encoded_10_10)

\* C4: an input of decode with a char that is neither HIGH nor LOW gives
\* InvalidCharacter with the position, counted in chars, of the first such
\* char and that char, whatever the length of the input is.
C4_FirstInvalidCharacter ==
    (given = "input" /\ ~AllBitChars(input) /\ decoded # None) =>
        decoded = InvalidCharacter(FirstOther(input) - 1, input[FirstOther(input)])

C4_Witness ==
    /\ input = test_encoded_invalid
    /\ decoded = InvalidCharacter(1, 63)

\* C5: an input of decode made of HIGH and LOW only whose char count n is no
\* multiple of 8 gives InvalidLength with length n, and no other input gives
\* InvalidLength.
C5_InvalidLength ==
    (given = "input" /\ decoded # None) =>
        /\ (AllBitChars(input) /\ Len(input) % 8 # 0) => decoded = InvalidLength(Len(input))
        /\ decoded.tag = "InvalidLength" => (AllBitChars(input) /\ Len(input) % 8 # 0)

C5_Witness ==
    /\ input = test_encoded_15
    /\ decoded = InvalidLength(15)

\* C6: encode::encode of [10, 2] is the text "    \t \t       \t " of the
\* crate's tests, and decode::decode of that text is Ok([10, 2]).
C6_LiteralVector ==
    /\ (data = test_input_10_2 /\ m_encoded # None) =>
           m_encoded = String(test_expected_10_2)
    /\ (input = test_expected_10_2 /\ m_decoded # None) =>
           m_decoded = Ok(test_input_10_2)

\* C7: decode::decode of "\t\t yeet" is the error for 'y' at position 3.
C7_YeetReportsY ==
    (input = test_input_yeet /\ m_decoded # None) =>
        m_decoded = DecodeError_new(3, 121)

\* C8: decode::decode of HIGH and LOW only with a char count n that is no
\* multiple of 8 is the error for the last position, n - 1, never Ok.
C8_LengthIsAnError ==
    (given = "input" /\ AllBitChars(input) /\ Len(input) % 8 # 0 /\ m_decoded # None) =>
        m_decoded = DecodeError_new(Len(input) - 1, input[Len(input)])

\* C9: both error types format an invalid char c at position p as
\* "Invalid character 'c' at position p", c in single quotes.
C9_Expected(p, c) ==
    <<73, 110, 118, 97, 108, 105, 100, 32, 99, 104, 97, 114, 97, 99, 116, 101,
      114, 32, 39, c, 39, 32, 97, 116, 32, 112, 111, 115, 105, 116, 105, 111, 110, 32>>
    \o usize_to_string(p)

C9_QuotedMessage ==
    /\ (decoded.tag = "InvalidCharacter" /\ message # None) =>
           message = String(C9_Expected(decoded.pos, decoded.char))
    /\ m_message # None =>
           m_message = String(C9_Expected(m_decoded.pos, m_decoded.char))

\* C10: the two decodes agree: Ok(v) of decode is Ok(v) of decode::decode,
\* InvalidCharacter is DecodeError with the same pos and char, and an error
\* of decode is an error of decode::decode.
C10_DecodesAgree ==
    (decoded # None /\ m_decoded # None) =>
        /\ decoded.tag = "Ok" => m_decoded = decoded
        /\ decoded.tag = "InvalidCharacter" =>
               m_decoded = DecodeError_new(decoded.pos, decoded.char)
        /\ decoded.tag # "Ok" => m_decoded.tag # "Ok"

====
